---- MODULE Spec2Model ----
(***************************************************************************)
(* A model of the storage-trait crate: the Storage interface               *)
(* (src/src/storage.rs), its in-process backend DashMapStorage             *)
(* (src/src/dashmap_storage.rs) and its network backend RedisStorage with  *)
(* RedisStorageBuilder (src/src/redis_storage.rs).                         *)
(*                                                                         *)
(* One handle is under test in a behaviour: `backend` says which variant   *)
(* the caller constructed.  Time is counted in ticks, TicksPerSec ticks to *)
(* the second, so that a Duration with a fractional part can be told from  *)
(* the whole seconds that set_ex sends.                                    *)
(***************************************************************************)
EXTENDS Integers, Sequences, FiniteSets, TLC

\* ------------------------------------------------------------------------
\* Bounds and input sets
\* ------------------------------------------------------------------------

\* Resolution of the model's clock: ticks per second.
TicksPerSec == 2

\* Longest Duration, in ticks, a caller passes to set_ex.
MaxTtl == 3

\* The keys and values of the tests (redis_storage.rs:204, 217).
Keys == {"name", "set_ex_test"}

Values == {"Ferris", "ok!"}

\* Durations a caller may pass to set_ex, in ticks; the shortest is a
\* fraction of a second.
Durations == 1..MaxTtl

\* Option<T>: None is the empty sequence, Some(x) the sequence <<x>>.
None == << >>

Some(x) == <<x>>

\* An empty table slot / an absent key on the server.
Absent == "<absent>"

\* A key without a time to live on the server.
NoTtl == -1

\* Result<T, Err>
Ok(x) == [tag |-> "Ok", val |-> x]

Err(e) == [tag |-> "Err", val |-> e]

\* The unit value ().
Unit == "()"

\* ------------------------------------------------------------------------
\* State
\* ------------------------------------------------------------------------
VARIABLES
    backend,   \* "dashmap" or "redis": the variant of the handle under test
    dash,      \* DashMapStorage.dash: key -> value or Absent
    rdata,     \* the server's keyspace: key -> string value or Absent
    rttl,      \* the server's expiry per key: ticks left, or NoTtl
    builder,   \* RedisStorageBuilder.addr (None / Some(addr)), or "moved"
    client,    \* RedisStorage.client: None before a build, Some(addr) after
    bout,      \* how the last build / try_build call ended
    last,      \* the last Storage call and what it returned
    hist,      \* per key, what the caller knows of its last writes
    bhist,     \* the address methods called on the builder: "addr", "config"
    thr,       \* the callers sharing one DashMapStorage, and what each is doing
    wr,        \* per key, what those callers have written so far
    pair       \* the last call made on both backends side by side

vars == <<backend, dash, rdata, rttl, builder, client, bout, last, hist,
          bhist, thr, wr, pair>>


\* ------------------------------------------------------------------------
\* DashMapStorage (src/src/dashmap_storage.rs)
\* ------------------------------------------------------------------------

\* dash.get(&key).map(|v| v.value().clone())
DashMapStorage_get(d, key) ==
    Ok(IF d[key] = Absent THEN None ELSE Some(d[key]))

\* DashMapStorage_set as dash.entry(key).or_insert(value): an old value stays.
DashMapStorage_set_KeepsOld(d, key, value) ==
    [res |-> Ok(Unit),
     dash |-> IF d[key] = Absent THEN [d EXCEPT ![key] = value] ELSE d]

\* dash.insert(key, value): the previous value, if any, is dropped.
DashMapStorage_set(d, key, value) ==
    [res |-> Ok(Unit), dash |-> [d EXCEPT ![key] = value]]

\* DashMapStorage_del reading the entry instead of removing it.
DashMapStorage_del_NoRemove(d, key) ==
    [res  |-> Ok(IF d[key] = Absent THEN None ELSE Some(key)),
     dash |-> d]

\* DashMapStorage_del acknowledging the key whether or not it was there.
DashMapStorage_del_AlwaysAcks(d, key) ==
    [res  |-> Ok(Some(key)),
     dash |-> [d EXCEPT ![key] = Absent]]

\* dash.remove(&key).map(|p| p.0)
DashMapStorage_del(d, key) ==
    [res  |-> Ok(IF d[key] = Absent THEN None ELSE Some(key)),
     dash |-> [d EXCEPT ![key] = Absent]]

\* dash.contains_key(&key)
DashMapStorage_contains(d, key) ==
    Ok(d[key] # Absent)

\* ------------------------------------------------------------------------
\* The redis client and server, as RedisStorage uses them
\* ------------------------------------------------------------------------

\* What can go wrong in one call: nothing; the connection is refused; the
\* command is lost before the server sees it; the server runs the command
\* and its reply is lost; the reply is not a string (reads only).
WriteFaults == {"none", "conn", "io_unsent", "io_lost"}

ReadFaults == WriteFaults \cup {"malformed"}

\* RedisError values: a description and an optional detail.
ConnectionRefused == [desc |-> "Connection refused (os error 111)", detail |-> ""]

BrokenPipe == [desc |-> "Broken pipe (os error 32)", detail |-> ""]

InvalidExpire ==
    [desc   |-> "An error was signalled by the server",
     detail |-> "invalid expire time in 'setex' command"]

\* FromRedisValue for String on a reply that is no string.
TypeError(reply) ==
    [desc   |-> "Response was of incompatible type",
     detail |-> "\"Response type not string compatible.\" (response was "
                    \o reply \o ")"]

\* RedisError's Display: "<description>: <detail>".
to_string(e) ==
    IF e.detail = "" THEN e.desc ELSE e.desc \o ": " \o e.detail

\* caused_by_nil_response matching on the kind of error alone.
caused_by_nil_response_ByKind(e) ==
    e.desc = "Response was of incompatible type"

caused_by_nil_response(e) ==
    to_string(e) = "Response was of incompatible type: \"Response type not string compatible.\" (response was nil)"

\* self.client.get_connection()
get_connection(fault) ==
    IF fault = "conn" THEN Err(ConnectionRefused) ELSE Ok("conn")

\* The server's state as one value.
Server(data, ttl) == [data |-> data, ttl |-> ttl]

\* expire.as_secs(): whole seconds of a Duration; the rest is dropped.
as_secs(expire) == expire \div TicksPerSec

\* conn.get(key) with V = String: GET, then FromRedisValue.
conn_get(s, key, fault) ==
    CASE fault \in {"io_unsent", "io_lost"} -> Err(BrokenPipe)
      [] fault = "malformed"                -> Err(TypeError("int(1)"))
      [] OTHER ->
            IF s.data[key] = Absent
                THEN Err(TypeError("nil"))
                ELSE Ok(s.data[key])

\* SET key value: the value replaces the old one and its expiry is removed.
ServerSet(s, key, value) ==
    Server([s.data EXCEPT ![key] = value], [s.ttl EXCEPT ![key] = NoTtl])

\* SETEX key seconds value
ServerSetEx(s, key, value, seconds) ==
    Server([s.data EXCEPT ![key] = value],
           [s.ttl EXCEPT ![key] = seconds * TicksPerSec])

\* DEL key
ServerDel(s, key) ==
    Server([s.data EXCEPT ![key] = Absent], [s.ttl EXCEPT ![key] = NoTtl])

\* conn_set as a SET that keeps the expiry of the key it overwrites.
conn_set_KeepTtl(s, key, value, fault) ==
    LET kept == Server([s.data EXCEPT ![key] = value],
                       [s.ttl EXCEPT ![key] =
                            IF s.data[key] = Absent THEN NoTtl ELSE @])
    IN  CASE fault = "io_unsent" -> [res |-> Err(BrokenPipe), srv |-> s]
          [] fault = "io_lost"   -> [res |-> Err(BrokenPipe), srv |-> kept]
          [] OTHER               -> [res |-> Ok(Unit), srv |-> kept]

\* conn.set::<K, String, ()>(key, value)
conn_set(s, key, value, fault) ==
    CASE fault = "io_unsent" -> [res |-> Err(BrokenPipe), srv |-> s]
      [] fault = "io_lost"   -> [res |-> Err(BrokenPipe), srv |-> ServerSet(s, key, value)]
      [] OTHER               -> [res |-> Ok(Unit), srv |-> ServerSet(s, key, value)]

\* conn.set_ex::<K, String, ()>(key, value, seconds): the server refuses a
\* time to live of zero seconds.
conn_set_ex(s, key, value, seconds, fault) ==
    CASE fault = "io_unsent" -> [res |-> Err(BrokenPipe), srv |-> s]
      [] seconds = 0         -> [res |-> Err(IF fault = "io_lost" THEN BrokenPipe
                                                                  ELSE InvalidExpire),
                                 srv |-> s]
      [] fault = "io_lost"   -> [res |-> Err(BrokenPipe),
                                 srv |-> ServerSetEx(s, key, value, seconds)]
      [] OTHER               -> [res |-> Ok(Unit),
                                 srv |-> ServerSetEx(s, key, value, seconds)]

\* conn_del as a command that empties the whole keyspace.
conn_del_FlushAll(s, key, fault) ==
    LET flushed == Server([k \in Keys |-> Absent], [k \in Keys |-> NoTtl])
    IN  CASE fault = "io_unsent" -> [res |-> Err(BrokenPipe), srv |-> s]
          [] fault = "io_lost"   -> [res |-> Err(BrokenPipe), srv |-> flushed]
          [] OTHER               -> [res |-> Ok(Unit), srv |-> flushed]

\* conn.del(&key), the reply read as ()
conn_del(s, key, fault) ==
    CASE fault = "io_unsent" -> [res |-> Err(BrokenPipe), srv |-> s]
      [] fault = "io_lost"   -> [res |-> Err(BrokenPipe), srv |-> ServerDel(s, key)]
      [] OTHER               -> [res |-> Ok(Unit), srv |-> ServerDel(s, key)]

\* ------------------------------------------------------------------------
\* RedisStorage (src/src/redis_storage.rs)
\* ------------------------------------------------------------------------

\* RedisStorage_set with the command's error dropped.
RedisStorage_set_SwallowsError(s, key, value, fault) ==
    LET c == get_connection(fault) IN
    IF c.tag = "Ok"
        THEN [res |-> Ok(Unit), srv |-> conn_set(s, key, value, fault).srv]
        ELSE [res |-> Err(c.val), srv |-> s]

\* RedisStorage_set issuing SET a second time when the first one failed.
RedisStorage_set_RetriesOnce(s, key, value, fault) ==
    LET c == get_connection(fault) IN
    IF c.tag = "Ok"
        THEN LET r == conn_set(s, key, value, fault) IN
             IF r.res.tag = "Err"
                 THEN [res |-> Ok(Unit), srv |-> conn_set(r.srv, key, value, "none").srv]
                 ELSE [res |-> Ok(Unit), srv |-> r.srv]
        ELSE [res |-> Err(c.val), srv |-> s]

RedisStorage_set(s, key, value, fault) ==
    LET c == get_connection(fault) IN
    IF c.tag = "Ok"
        THEN LET r == conn_set(s, key, value, fault) IN
             [res |-> IF r.res.tag = "Err" THEN Err(r.res.val) ELSE Ok(Unit),
              srv |-> r.srv]
        ELSE [res |-> Err(c.val), srv |-> s]

RedisStorage_set_ex(s, key, value, expire, fault) ==
    LET c == get_connection(fault) IN
    IF c.tag = "Ok"
        THEN LET r == conn_set_ex(s, key, value, as_secs(expire), fault) IN
             [res |-> IF r.res.tag = "Err" THEN Err(r.res.val) ELSE Ok(Unit),
              srv |-> r.srv]
        ELSE [res |-> Err(c.val), srv |-> s]

RedisStorage_get(s, key, fault) ==
    LET c == get_connection(fault) IN
    IF c.tag = "Ok"
        THEN LET r == conn_get(s, key, fault) IN
             IF r.tag = "Err"
                 THEN IF caused_by_nil_response(r.val)
                          THEN Ok(None)
                          ELSE Err(r.val)
                 ELSE Ok(Some(r.val))
        ELSE Err(c.val)

\* RedisStorage_del answering from the count of keys the server removed.
RedisStorage_del_ReportsAbsent(s, key, fault) ==
    LET c == get_connection(fault) IN
    IF c.tag = "Ok"
        THEN LET r == conn_del(s, key, fault) IN
             [res |-> IF r.res.tag = "Err"
                          THEN Err(r.res.val)
                          ELSE Ok(IF s.data[key] = Absent THEN None ELSE Some(key)),
              srv |-> r.srv]
        ELSE [res |-> Err(c.val), srv |-> s]

\* RedisStorage_del asking for a connection a second time when the first
\* request failed.
RedisStorage_del_Reconnects(s, key, fault) ==
    LET c == get_connection(fault) IN
    IF c.tag = "Ok"
        THEN LET r == conn_del(s, key, fault) IN
             [res |-> IF r.res.tag = "Err" THEN Err(r.res.val) ELSE Ok(Some(key)),
              srv |-> r.srv]
        ELSE LET r == conn_del(s, key, "none") IN
             [res |-> Ok(Some(key)), srv |-> r.srv]

RedisStorage_del(s, key, fault) ==
    LET c == get_connection(fault) IN
    IF c.tag = "Ok"
        THEN LET r == conn_del(s, key, fault) IN
             [res |-> IF r.res.tag = "Err" THEN Err(r.res.val) ELSE Ok(Some(key)),
              srv |-> r.srv]
        ELSE [res |-> Err(c.val), srv |-> s]

\* RedisStorage_contains without the nil check.
RedisStorage_contains_NoNilCheck(s, key, fault) ==
    LET c == get_connection(fault) IN
    IF c.tag = "Ok"
        THEN LET r == conn_get(s, key, fault) IN
             IF r.tag = "Err" THEN Err(r.val) ELSE Ok(TRUE)
        ELSE Err(c.val)

RedisStorage_contains(s, key, fault) ==
    LET c == get_connection(fault) IN
    IF c.tag = "Ok"
        THEN LET r == conn_get(s, key, fault) IN
             IF r.tag = "Err"
                 THEN IF caused_by_nil_response(r.val)
                          THEN Ok(FALSE)
                          ELSE Err(r.val)
                 ELSE Ok(TRUE)
        ELSE Err(c.val)

\* ------------------------------------------------------------------------
\* RedisStorageBuilder (src/src/redis_storage.rs)
\* ------------------------------------------------------------------------

\* Addresses a caller passes to addr(): the tests' address, and one without
\* a scheme, which is no redis URL.
AddrInputs == {"redis://127.0.0.1:6379", "redis://cache:6379", "127.0.0.1:6379"}

\* RedisConfig values a caller passes to config().
ConfigInputs ==
    {[user |-> "ferris", password |-> "pw", endpoint |-> "127.0.0.1", port |-> 6379],
     [user |-> "", password |-> "", endpoint |-> "cache", port |-> 6380]}

DigitString(d) ==
    CASE d = 0 -> "0" [] d = 1 -> "1" [] d = 2 -> "2" [] d = 3 -> "3"
      [] d = 4 -> "4" [] d = 5 -> "5" [] d = 6 -> "6" [] d = 7 -> "7"
      [] d = 8 -> "8" [] d = 9 -> "9"

\* Display of a usize: its decimal digits.
RECURSIVE usize_to_string(_)
usize_to_string(n) ==
    IF n < 10 THEN DigitString(n)
              ELSE usize_to_string(n \div 10) \o DigitString(n % 10)

\* format!("redis://{}:{}@{}:{}", user, password, endpoint, port)
format_config(config) ==
    "redis://" \o config.user \o ":" \o config.password \o "@"
        \o config.endpoint \o ":" \o usize_to_string(config.port)

\* RedisStorageBuilder::default(): no address.
RedisStorageBuilder_default == [live |-> TRUE, addr |-> None]

\* The builder after build / try_build took it by value.
Moved == [live |-> FALSE, addr |-> None]

RedisStorageBuilder_config(b, config) ==
    [b EXCEPT !.addr = Some(format_config(config))]

RedisStorageBuilder_addr(b, addr) ==
    [b EXCEPT !.addr = Some(addr)]

\* redis::Client::open(addr): fails on what is no redis URL.
Client_open(addr) ==
    IF addr = "127.0.0.1:6379" THEN Err("Redis URL did not parse") ELSE Ok(addr)

\* The outcome of a build call on a builder whose address was addr: res is
\* "Ok", "Err" or "panic"; opened and probed count the Client::open and
\* check_connection calls it made.
Outcome(op, addr, res, msg, cl, opened, probed) ==
    [op |-> op, addr |-> addr, res |-> res, msg |-> msg, client |-> cl,
     opened |-> opened, probed |-> probed]

\* build(): ping is what client.check_connection() returns.
RedisStorageBuilder_build(b, ping) ==
    IF b.addr = None
        THEN Outcome("build", b.addr, "panic",
                     "Empty url, use config or url method before building storage!",
                     None, 0, 0)
        ELSE LET c == Client_open(b.addr[1]) IN
             IF c.tag = "Err"
                 THEN Outcome("build", b.addr, "panic", c.val, None, 1, 0)
                 ELSE IF ~ping
                     THEN Outcome("build", b.addr, "panic", "Connection ping failed...", None, 1, 1)
                     ELSE Outcome("build", b.addr, "Ok", "", Some(c.val), 1, 1)

\* try_build falling back to the local server when no address was given.
RedisStorageBuilder_try_build_DefaultAddr(b, ping) ==
    LET c == Client_open(IF b.addr = None THEN "redis://127.0.0.1:6379"
                                          ELSE b.addr[1])
    IN  IF c.tag = "Err"
            THEN Outcome("try_build", b.addr, "Err", c.val, None, 1, 0)
            ELSE IF ~ping
                THEN Outcome("try_build", b.addr, "panic", "Connection ping failed...", None, 1, 1)
                ELSE Outcome("try_build", b.addr, "Ok", "", Some(c.val), 1, 1)

\* try_build(): ping is what client.check_connection() returns.
RedisStorageBuilder_try_build(b, ping) ==
    IF b.addr = None
        THEN Outcome("try_build", b.addr, "Err",
                     "Empty url, use config or url method before building storage!",
                     None, 0, 0)
        ELSE LET c == Client_open(b.addr[1]) IN
             IF c.tag = "Err"
                 THEN Outcome("try_build", b.addr, "Err", c.val, None, 1, 0)
                 ELSE IF ~ping
                     THEN Outcome("try_build", b.addr, "panic", "Connection ping failed...", None, 1, 1)
                     ELSE Outcome("try_build", b.addr, "Ok", "", Some(c.val), 1, 1)

\* ------------------------------------------------------------------------
\* What the caller knows of a key's last writes
\* ------------------------------------------------------------------------

\* kind "set": vals are the values of the last one or two set calls on the
\*   key that returned Ok with no other write of the key between them; orig
\*   is what was left of the Duration of a set_ex that the first of them
\*   overwrote (counted down to 0), or -1.
\* kind "set_ex": vals is the value of a set_ex that returned Ok and left
\*   what is left of its Duration (counted down to 0).
\* kind "none": anything else (no write yet, a del, a write that failed).
NoHist == [kind |-> "none", vals |-> << >>, left |-> -1, orig |-> -1]

HistSet(h, value, res) ==
    CASE res.tag = "Err" -> NoHist
      [] h.kind = "set" ->
            [kind |-> "set", vals |-> <<h.vals[Len(h.vals)], value>>,
             left |-> -1, orig |-> -1]
      [] h.kind = "set_ex" /\ h.left > 0 ->
            [kind |-> "set", vals |-> <<value>>, left |-> -1, orig |-> h.left]
      [] OTHER ->
            [kind |-> "set", vals |-> <<value>>, left |-> -1, orig |-> -1]

HistSetEx(h, value, expire, res) ==
    IF res.tag = "Err"
        THEN NoHist
        ELSE [kind |-> "set_ex", vals |-> <<value>>, left |-> expire, orig |-> -1]

HistTick(h) ==
    [h EXCEPT !.left = IF @ > 0 THEN @ - 1 ELSE @,
              !.orig = IF @ > 0 THEN @ - 1 ELSE @]

\* ------------------------------------------------------------------------
\* Initial state
\* ------------------------------------------------------------------------

\* A call and what came of it: pre is the entry the store held for the key
\* when del was called, calls the calls the handler made on the redis client.
CallWith(op, key, fault, res, pre, calls) ==
    [op |-> op, key |-> key, fault |-> fault, res |-> res,
     pre |-> pre, calls |-> calls]

NoCall == CallWith("none", "", "none", Ok(Unit), Absent, << >>)

Call(op, key, fault, res) == CallWith(op, key, fault, res, Absent, << >>)

\* The calls a RedisStorage handler makes on the client: get_connection
\* once and, when that returned a connection, the one command.
ClientCalls(cmd, fault) ==
    IF get_connection(fault).tag = "Ok"
        THEN <<"get_connection", cmd>>
        ELSE <<"get_connection">>

\* A caller of the shared store between two calls.
Idle == [pc |-> "idle", key |-> "", val |-> Absent, res |-> Ok(Unit)]

\* How many callers share the DashMapStorage.
NumThreads == 2

Threads == 1..NumThreads

\* What the callers have written: per key, the values passed to set so far
\* and the value of the set the table committed last.
NoWrites == [k \in Keys |-> [written |-> {}, committed |-> Absent]]

\* No call made side by side yet.
NoPair == [op |-> "none", key |-> "", pre |-> Absent,
           lres |-> Ok(Unit), rres |-> Ok(Unit)]

\* The builder's address methods the caller has called: none yet.
NoGiven == {}

NoOutcome == Outcome("none", None, "", "", None, 0, 0)

\* The handle right after construction: a DashMapStorage built by
\* DashMapStorageBuilder::new().build(), or a RedisStorage built as the
\* tests' build_localhost() builds it, over an empty server.
Init ==
    /\ backend \in {"dashmap", "redis"}
    /\ dash = [k \in Keys |-> Absent]
    /\ rdata = [k \in Keys |-> Absent]
    /\ rttl = [k \in Keys |-> NoTtl]
    /\ builder = Moved
    /\ bout = IF backend = "redis"
                 THEN RedisStorageBuilder_build(
                          RedisStorageBuilder_addr(RedisStorageBuilder_default,
                                                   "redis://127.0.0.1:6379"),
                          TRUE)
                 ELSE NoOutcome
    /\ client = bout.client
    /\ last = NoCall
    /\ hist = [k \in Keys |-> NoHist]
    /\ bhist = NoGiven
    /\ thr = [t \in Threads |-> Idle]
    /\ wr = NoWrites
    /\ pair = NoPair

\* The remote backend before construction: RedisStorageBuilder::new().
InitBuilder ==
    /\ backend = "redis"
    /\ dash = [k \in Keys |-> Absent]
    /\ rdata = [k \in Keys |-> Absent]
    /\ rttl = [k \in Keys |-> NoTtl]
    /\ builder = RedisStorageBuilder_default
    /\ bout = NoOutcome
    /\ client = None
    /\ last = NoCall
    /\ hist = [k \in Keys |-> NoHist]
    /\ bhist = NoGiven
    /\ thr = [t \in Threads |-> Idle]
    /\ wr = NoWrites
    /\ pair = NoPair

\* ------------------------------------------------------------------------
\* Actions: the builder
\* ------------------------------------------------------------------------

\* RedisStorageBuilder::new(), once the builder before it was used up.
BuilderNew ==
    /\ ~builder.live
    /\ builder' = RedisStorageBuilder_default
    /\ bhist' = NoGiven
    /\ UNCHANGED <<backend, dash, rdata, rttl, client, bout, last, hist,
                   thr, wr, pair>>

BuilderConfig ==
    /\ builder.live
    /\ \E config \in ConfigInputs :
          /\ builder' = RedisStorageBuilder_config(builder, config)
          /\ bhist' = bhist \cup {"config"}
    /\ UNCHANGED <<backend, dash, rdata, rttl, client, bout, last, hist,
                   thr, wr, pair>>

BuilderAddr ==
    /\ builder.live
    /\ \E addr \in AddrInputs :
          /\ builder' = RedisStorageBuilder_addr(builder, addr)
          /\ bhist' = bhist \cup {"addr"}
    /\ UNCHANGED <<backend, dash, rdata, rttl, client, bout, last, hist,
                   thr, wr, pair>>

BuilderBuild ==
    /\ builder.live
    /\ \E ping \in BOOLEAN :
          LET o == RedisStorageBuilder_build(builder, ping) IN
          /\ bout' = o
          /\ client' = o.client
    /\ builder' = Moved
    /\ UNCHANGED <<backend, dash, rdata, rttl, last, hist, bhist, thr, wr, pair>>

BuilderTryBuild ==
    /\ builder.live
    /\ \E ping \in BOOLEAN :
          LET o == RedisStorageBuilder_try_build(builder, ping) IN
          /\ bout' = o
          /\ client' = o.client
    /\ builder' = Moved
    /\ UNCHANGED <<backend, dash, rdata, rttl, last, hist, bhist, thr, wr, pair>>

\* ------------------------------------------------------------------------
\* Actions: DashMapStorage
\* ------------------------------------------------------------------------

LocalGet ==
    /\ backend = "dashmap"
    /\ \E key \in Keys :
          last' = Call("get", key, "none", DashMapStorage_get(dash, key))
    /\ UNCHANGED <<backend, dash, rdata, rttl, builder, client, bout, hist,
                   bhist, thr, wr, pair>>

LocalSet ==
    /\ backend = "dashmap"
    /\ \E key \in Keys, value \in Values :
          LET r == DashMapStorage_set(dash, key, value) IN
          /\ dash' = r.dash
          /\ last' = Call("set", key, "none", r.res)
          /\ hist' = [hist EXCEPT ![key] = HistSet(@, value, r.res)]
    /\ UNCHANGED <<backend, rdata, rttl, builder, client, bout,
                   bhist, thr, wr, pair>>

LocalDel ==
    /\ backend = "dashmap"
    /\ \E key \in Keys :
          LET r == DashMapStorage_del(dash, key) IN
          /\ dash' = r.dash
          /\ last' = CallWith("del", key, "none", r.res, dash[key], << >>)
          /\ hist' = [hist EXCEPT ![key] = NoHist]
    /\ UNCHANGED <<backend, rdata, rttl, builder, client, bout,
                   bhist, thr, wr, pair>>

LocalContains ==
    /\ backend = "dashmap"
    /\ \E key \in Keys :
          last' = Call("contains", key, "none", DashMapStorage_contains(dash, key))
    /\ UNCHANGED <<backend, dash, rdata, rttl, builder, client, bout, hist,
                   bhist, thr, wr, pair>>

\* ------------------------------------------------------------------------
\* Actions: RedisStorage
\* ------------------------------------------------------------------------

RemoteSet ==
    /\ client # None
    /\ \E key \in Keys, value \in Values, fault \in WriteFaults :
          LET r == RedisStorage_set(Server(rdata, rttl), key, value, fault) IN
          /\ rdata' = r.srv.data
          /\ rttl' = r.srv.ttl
          /\ last' = CallWith("set", key, fault, r.res, Absent,
                              ClientCalls("SET", fault))
          /\ hist' = [hist EXCEPT ![key] = HistSet(@, value, r.res)]
    /\ UNCHANGED <<backend, dash, builder, client, bout,
                   bhist, thr, wr, pair>>

RemoteSetEx ==
    /\ client # None
    /\ \E key \in Keys, value \in Values, expire \in Durations, fault \in WriteFaults :
          LET r == RedisStorage_set_ex(Server(rdata, rttl), key, value, expire, fault) IN
          /\ rdata' = r.srv.data
          /\ rttl' = r.srv.ttl
          /\ last' = CallWith("set_ex", key, fault, r.res, Absent,
                              ClientCalls("SETEX", fault))
          /\ hist' = [hist EXCEPT ![key] = HistSetEx(@, value, expire, r.res)]
    /\ UNCHANGED <<backend, dash, builder, client, bout,
                   bhist, thr, wr, pair>>

RemoteGet ==
    /\ client # None
    /\ \E key \in Keys, fault \in ReadFaults :
          last' = CallWith("get", key, fault,
                           RedisStorage_get(Server(rdata, rttl), key, fault),
                           Absent, ClientCalls("GET", fault))
    /\ UNCHANGED <<backend, dash, rdata, rttl, builder, client, bout, hist,
                   bhist, thr, wr, pair>>

RemoteDel ==
    /\ client # None
    /\ \E key \in Keys, fault \in WriteFaults :
          LET r == RedisStorage_del(Server(rdata, rttl), key, fault) IN
          /\ rdata' = r.srv.data
          /\ rttl' = r.srv.ttl
          /\ last' = CallWith("del", key, fault, r.res, rdata[key],
                              ClientCalls("DEL", fault))
          /\ hist' = [hist EXCEPT ![key] = NoHist]
    /\ UNCHANGED <<backend, dash, builder, client, bout,
                   bhist, thr, wr, pair>>

RemoteContains ==
    /\ client # None
    /\ \E key \in Keys, fault \in ReadFaults :
          last' = CallWith("contains", key, fault,
                           RedisStorage_contains(Server(rdata, rttl), key, fault),
                           Absent, ClientCalls("GET", fault))
    /\ UNCHANGED <<backend, dash, rdata, rttl, builder, client, bout, hist,
                   bhist, thr, wr, pair>>

\* One tick of time passes: the server counts every expiry down and drops
\* the keys whose time to live has run out.
ServerTick(s) ==
    Server([k \in Keys |-> IF s.ttl[k] = 1 THEN Absent ELSE s.data[k]],
           [k \in Keys |-> IF s.ttl[k] > 1 THEN s.ttl[k] - 1 ELSE NoTtl])

Tick ==
    /\ backend = "redis"
    /\ LET s == ServerTick(Server(rdata, rttl)) IN
          /\ rdata' = s.data
          /\ rttl' = s.ttl
    /\ hist' = [k \in Keys |-> HistTick(hist[k])]
    /\ UNCHANGED <<backend, dash, builder, client, bout, last,
                   bhist, thr, wr, pair>>

\* The calls on a handle, and time.
Next ==
    \/ LocalGet
    \/ LocalSet
    \/ LocalDel
    \/ LocalContains
    \/ RemoteSet
    \/ RemoteSetEx
    \/ RemoteGet
    \/ RemoteDel
    \/ RemoteContains
    \/ Tick

Spec == Init /\ [][Next]_vars

\* The calls on a RedisStorageBuilder.
NextBuilder ==
    \/ BuilderNew
    \/ BuilderConfig
    \/ BuilderAddr
    \/ BuilderBuild
    \/ BuilderTryBuild

SpecBuilder == InitBuilder /\ [][NextBuilder]_vars

\* ------------------------------------------------------------------------
\* Several callers sharing one DashMapStorage
\* ------------------------------------------------------------------------

\* One DashMapStorage, shared by the callers in Threads.
InitConc ==
    /\ Init
    /\ backend = "dashmap"

\* A caller enters set(key, value); the table has not taken the write yet.
ConcCallSet ==
    \E t \in Threads, key \in Keys, value \in Values :
        /\ thr[t].pc = "idle"
        /\ thr' = [thr EXCEPT ![t] = [pc |-> "set", key |-> key, val |-> value,
                                      res |-> Ok(Unit)]]
        /\ wr' = [wr EXCEPT ![key].written = @ \cup {value}]
        /\ UNCHANGED <<backend, dash, rdata, rttl, builder, client, bout, last,
                       hist, bhist, pair>>

\* self.dash.insert(key, value) under the lock of the key's shard: the
\* table commits the write of one caller.
ConcCommitSet ==
    \E t \in Threads :
        /\ thr[t].pc = "set"
        /\ LET r == DashMapStorage_set(dash, thr[t].key, thr[t].val) IN
              /\ dash' = r.dash
              /\ thr' = [thr EXCEPT ![t].pc = "stored", ![t].res = r.res]
        /\ wr' = [wr EXCEPT ![thr[t].key].committed = thr[t].val]
        /\ UNCHANGED <<backend, rdata, rttl, builder, client, bout, last,
                       hist, bhist, pair>>

\* A caller enters get(key).
ConcCallGet ==
    \E t \in Threads, key \in Keys :
        /\ thr[t].pc = "idle"
        /\ thr' = [thr EXCEPT ![t] = [pc |-> "get", key |-> key, val |-> Absent,
                                      res |-> Ok(Unit)]]
        /\ UNCHANGED <<backend, dash, rdata, rttl, builder, client, bout, last,
                       hist, bhist, wr, pair>>

\* self.dash.get(&key) under the lock of the key's shard, the value cloned.
ConcCommitGet ==
    \E t \in Threads :
        /\ thr[t].pc = "get"
        /\ thr' = [thr EXCEPT ![t].pc = "got",
                              ![t].res = DashMapStorage_get(dash, thr[t].key)]
        /\ UNCHANGED <<backend, dash, rdata, rttl, builder, client, bout, last,
                       hist, bhist, wr, pair>>

\* The call returns to its caller.
ConcReturn ==
    \E t \in Threads :
        /\ thr[t].pc \in {"stored", "got"}
        /\ thr' = [thr EXCEPT ![t] = Idle]
        /\ UNCHANGED <<backend, dash, rdata, rttl, builder, client, bout, last,
                       hist, bhist, wr, pair>>

\* The calls of the callers, interleaved.
NextConc ==
    \/ ConcCallSet
    \/ ConcCommitSet
    \/ ConcCallGet
    \/ ConcCommitGet
    \/ ConcReturn

SpecConc == InitConc /\ [][NextConc]_vars

\* ------------------------------------------------------------------------
\* The same calls on a DashMapStorage and on a RedisStorage
\* ------------------------------------------------------------------------

\* A fresh DashMapStorage (dash) beside a RedisStorage over an empty server
\* (rdata, rttl).
InitPair ==
    /\ Init
    /\ backend = "redis"

\* A call made on both handles: the entry the local store held for the key
\* before it, and the two results.
Paired(op, key, pre, lres, rres) ==
    [op |-> op, key |-> key, pre |-> pre, lres |-> lres, rres |-> rres]

PairSet ==
    \E key \in Keys, value \in Values :
        LET l == DashMapStorage_set(dash, key, value)
            r == RedisStorage_set(Server(rdata, rttl), key, value, "none")
        IN  /\ dash' = l.dash
            /\ rdata' = r.srv.data
            /\ rttl' = r.srv.ttl
            /\ pair' = Paired("set", key, dash[key], l.res, r.res)
            /\ hist' = [hist EXCEPT ![key] = HistSet(@, value, r.res)]
            /\ UNCHANGED <<backend, builder, client, bout, last, bhist, thr, wr>>

PairGet ==
    \E key \in Keys :
        /\ pair' = Paired("get", key, dash[key],
                          DashMapStorage_get(dash, key),
                          RedisStorage_get(Server(rdata, rttl), key, "none"))
        /\ UNCHANGED <<backend, dash, rdata, rttl, builder, client, bout, last,
                       hist, bhist, thr, wr>>

PairDel ==
    \E key \in Keys :
        LET l == DashMapStorage_del(dash, key)
            r == RedisStorage_del(Server(rdata, rttl), key, "none")
        IN  /\ dash' = l.dash
            /\ rdata' = r.srv.data
            /\ rttl' = r.srv.ttl
            /\ pair' = Paired("del", key, dash[key], l.res, r.res)
            /\ hist' = [hist EXCEPT ![key] = NoHist]
            /\ UNCHANGED <<backend, builder, client, bout, last, bhist, thr, wr>>

PairContains ==
    \E key \in Keys :
        /\ pair' = Paired("contains", key, dash[key],
                          DashMapStorage_contains(dash, key),
                          RedisStorage_contains(Server(rdata, rttl), key, "none"))
        /\ UNCHANGED <<backend, dash, rdata, rttl, builder, client, bout, last,
                       hist, bhist, thr, wr>>

\* Sequences of set, get, del and contains calls, each made on both handles.
NextPair ==
    \/ PairSet
    \/ PairGet
    \/ PairDel
    \/ PairContains

SpecPair == InitPair /\ [][NextPair]_vars

\* ------------------------------------------------------------------------
\* What a call made in the current state returns
\* ------------------------------------------------------------------------

Srv == Server(rdata, rttl)

\* The entry the handle's store holds for a key.
Stored(k) == IF backend = "dashmap" THEN dash[k] ELSE rdata[k]

\* get(k) and contains(k) with nothing going wrong on the way.
GetNow(k) ==
    IF backend = "dashmap" THEN DashMapStorage_get(dash, k)
                           ELSE RedisStorage_get(Srv, k, "none")

ContainsNow(k) ==
    IF backend = "dashmap" THEN DashMapStorage_contains(dash, k)
                           ELSE RedisStorage_contains(Srv, k, "none")

\* The last call was op on key k and nothing went wrong on the way.
LastWas(op, k) == last.op = op /\ last.key = k /\ last.fault = "none"

\* The value of the latest set / set_ex the caller knows of.
LastWritten(k) == hist[k].vals[Len(hist[k].vals)]

\* ------------------------------------------------------------------------
\* Claims
\* ------------------------------------------------------------------------

\* C1 (round trip, both backends): while the latest write of k is a
\* set(k, v) that returned Ok, with no write, delete or expiry of k since,
\* get(k) returns Ok(Some(v)) and contains(k) returns Ok(true); a get or
\* contains that cannot reach the server returns Err, never another answer.
C1_RoundTrip ==
    \A k \in Keys :
        hist[k].kind = "set" =>
            /\ GetNow(k) = Ok(Some(LastWritten(k)))
            /\ ContainsNow(k) = Ok(TRUE)
            /\ LastWas("get", k) => last.res = Ok(Some(LastWritten(k)))
            /\ LastWas("contains", k) => last.res = Ok(TRUE)
            /\ (last.op \in {"get", "contains"} /\ last.key = k /\ last.fault # "none")
                   => last.res.tag = "Err"

\* A get on the local store that returned the value set before it.
C1_Witness ==
    \E k \in Keys :
        /\ backend = "dashmap"
        /\ hist[k].kind = "set"
        /\ LastWas("get", k)
        /\ last.res = Ok(Some(LastWritten(k)))

\* C2 (absence disambiguation, remote backend): in every reachable server
\* state, for every key and every way the call can go wrong, a failure of
\* the GET for which caused_by_nil_response holds makes get return Ok(None),
\* every other failure makes it return Err; the failure is the nil one
\* exactly when the server holds nothing for the key and the reply arrived,
\* so get of an absent key on a reachable server returns Ok(None).
C2_AbsenceDisambiguation ==
    \A k \in Keys, f \in ReadFaults :
        LET c == get_connection(f)
            r == conn_get(Srv, k, f)
            g == RedisStorage_get(Srv, k, f)
        IN  /\ c.tag = "Err" => g = Err(c.val)
            /\ (c.tag = "Ok" /\ r.tag = "Err" /\ caused_by_nil_response(r.val))
                   => g = Ok(None)
            /\ (c.tag = "Ok" /\ r.tag = "Err" /\ ~caused_by_nil_response(r.val))
                   => g = Err(r.val)
            /\ g = Ok(None) <=> (f = "none" /\ rdata[k] = Absent)

\* A get on the server that answered nil and returned Ok(None), followed or
\* preceded by nothing that stored the key.
C2_Witness ==
    \E k \in Keys :
        /\ backend = "redis"
        /\ LastWas("get", k)
        /\ last.res = Ok(None)
        /\ rdata[k] = Absent

\* C3 (absence is never an error, both backends): for every key the store
\* does not hold (never set, deleted or expired), get returns Ok(None) and
\* contains returns Ok(false).
C3_AbsenceNotError ==
    \A k \in Keys :
        Stored(k) = Absent =>
            /\ GetNow(k) = Ok(None)
            /\ ContainsNow(k) = Ok(FALSE)

\* A contains on the server for a key written by set_ex whose time to live
\* has run out: it returned Ok(false).
C3_Witness ==
    \E k \in Keys :
        /\ backend = "redis"
        /\ hist[k].kind = "set_ex"
        /\ rdata[k] = Absent
        /\ LastWas("contains", k)
        /\ last.res = Ok(FALSE)

\* C4 (overwrite, both backends): after set(k, v1) and then set(k, v2),
\* both Ok and with no other write of k between them or since, get(k)
\* returns Ok(Some(v2)); it does not return v1 when v1 differs from v2.
C4_Overwrite ==
    \A k \in Keys :
        (hist[k].kind = "set" /\ Len(hist[k].vals) = 2) =>
            /\ GetNow(k) = Ok(Some(hist[k].vals[2]))
            /\ Stored(k) = hist[k].vals[2]
            /\ LastWas("get", k) => last.res = Ok(Some(hist[k].vals[2]))

\* A get on the server after two sets of different values: it returned the
\* second.
C4_Witness ==
    \E k \in Keys :
        /\ backend = "redis"
        /\ hist[k].kind = "set"
        /\ Len(hist[k].vals) = 2
        /\ hist[k].vals[1] # hist[k].vals[2]
        /\ LastWas("get", k)
        /\ last.res = Ok(Some(hist[k].vals[2]))

\* del(k) made in the current state with nothing going wrong on the way:
\* what it returns and the store it leaves.
DelNow(st, k) ==
    IF backend = "dashmap"
        THEN LET r == DashMapStorage_del(st, k) IN [res |-> r.res, store |-> r.dash]
        ELSE LET r == RedisStorage_del(st, k, "none") IN [res |-> r.res, store |-> r.srv]

Store == IF backend = "dashmap" THEN dash ELSE Srv

GetIn(st, k) ==
    IF backend = "dashmap" THEN DashMapStorage_get(st, k)
                           ELSE RedisStorage_get(st, k, "none")

\* C5 (del is idempotent and effective, both backends): del(k) returns Ok
\* whether or not k is stored; on an absent key it leaves the store as it
\* was; after it get(k) returns Ok(None); a second del(k) returns Ok and
\* leaves the store the first one left.
C5_DelIdempotent ==
    \A k \in Keys :
        LET once  == DelNow(Store, k)
            twice == DelNow(once.store, k)
        IN  /\ once.res.tag = "Ok"
            /\ Stored(k) = Absent => once.store = Store
            /\ GetIn(once.store, k) = Ok(None)
            /\ twice.res.tag = "Ok"
            /\ twice.store = once.store
            /\ LastWas("del", k) => (last.res.tag = "Ok" /\ GetNow(k) = Ok(None))

\* A del on the local store that removed a key it held.
C5_Witness ==
    \E k \in Keys :
        /\ backend = "dashmap"
        /\ LastWas("del", k)
        /\ last.res = Ok(Some(k))
        /\ dash[k] = Absent

\* C6 (expiring write, remote backend): after set_ex(k, v, ttl) returned
\* Ok, with no write or delete of k since, get(k) returns Ok(Some(v)) while
\* less than ttl has passed since the call, and get(k) returns Ok(None) and
\* contains(k) Ok(false) once ttl or more has passed.
C6_ExpiringWrite ==
    \A k \in Keys :
        (backend = "redis" /\ hist[k].kind = "set_ex") =>
            /\ hist[k].left > 0 => GetNow(k) = Ok(Some(LastWritten(k)))
            /\ hist[k].left = 0 => (GetNow(k) = Ok(None) /\ ContainsNow(k) = Ok(FALSE))

\* C8 (the fallible builder never aborts): try_build does not panic; it
\* returns Err when no address was configured, and Ok only when an address
\* was set and the probe was made and succeeded.
C8_TryBuildNeverPanics ==
    bout.op = "try_build" =>
        /\ bout.res \in {"Ok", "Err"}
        /\ bout.addr = None => bout.res = "Err"
        /\ bout.res = "Ok" =>
               (bout.addr # None /\ bout.probed = 1 /\ bout.client # None)

\* C9 (no address, no handle): on a builder with no address build panics
\* and try_build returns Err, before Client::open or check_connection is
\* called, and no handle comes out; every handle that is built holds the
\* address the caller gave.
C9_NoAddressFails ==
    /\ (bout.op \in {"build", "try_build"} /\ bout.addr = None) =>
           /\ bout.res = IF bout.op = "build" THEN "panic" ELSE "Err"
           /\ bout.opened = 0
           /\ bout.probed = 0
           /\ bout.client = None
           /\ client = None
    /\ bout.res = "Ok" => (bout.addr # None /\ bout.client = bout.addr)
    /\ client # None => client = bout.addr

\* A try_build on a fresh builder: it returned Err and made no handle.
C9_Witness ==
    /\ bout.op = "try_build"
    /\ bout.addr = None
    /\ bout.res = "Err"
    /\ client = None

\* C10 (a plain set clears the expiry, remote backend): while the latest
\* write of k is a set that returned Ok, the server holds no expiry for k;
\* when that set overwrote the entry of a set_ex before its ttl had passed,
\* get(k) still returns the set's value once the ttl has passed.
C10_SetClearsTtl ==
    \A k \in Keys :
        (backend = "redis" /\ hist[k].kind = "set") =>
            /\ rttl[k] = NoTtl
            /\ hist[k].orig = 0 =>
                   /\ GetNow(k) = Ok(Some(LastWritten(k)))
                   /\ LastWas("get", k) => last.res = Ok(Some(LastWritten(k)))

\* A get made after the ttl of the overwritten set_ex had passed: it
\* returned the value of the set.
C10_Witness ==
    \E k \in Keys :
        /\ backend = "redis"
        /\ hist[k].kind = "set"
        /\ hist[k].orig = 0
        /\ LastWas("get", k)
        /\ last.res = Ok(Some(LastWritten(k)))

\* C11 (local del acknowledgement): DashMapStorage::del(k) never returns
\* Err; it returns Ok(Some(k)) exactly when k was present right before the
\* call and Ok(None) exactly when it was absent; after it k is absent.
C11_LocalDelAck ==
    (backend = "dashmap" /\ last.op = "del") =>
        /\ last.res.tag = "Ok"
        /\ last.res = Ok(Some(last.key)) <=> last.pre # Absent
        /\ last.res = Ok(None) <=> last.pre = Absent
        /\ dash[last.key] = Absent

\* A del on the local store of a key that was not there: it returned
\* Ok(None).
C11_Witness ==
    /\ backend = "dashmap"
    /\ last.op = "del"
    /\ last.pre = Absent
    /\ last.res = Ok(None)

\* C12 (remote del acknowledgement): RedisStorage::del(k) returns
\* Ok(Some(k)) whenever the connection was acquired and the command
\* succeeded, whether or not k was present before; it never returns
\* Ok(None), so every Ok it returns carries the key.
C12_RemoteDelAck ==
    (backend = "redis" /\ last.op = "del") =>
        /\ last.fault = "none" => last.res = Ok(Some(last.key))
        /\ last.res # Ok(None)
        /\ last.res.tag = "Ok" => last.res = Ok(Some(last.key))

\* A del on the remote store of a key that was not there: it returned
\* Ok(Some(k)) all the same.
C12_Witness ==
    /\ backend = "redis"
    /\ last.op = "del"
    /\ last.fault = "none"
    /\ last.pre = Absent
    /\ last.res = Ok(Some(last.key))

\* C13 (last write wins on the shared local store): in every interleaving
\* of concurrent set and get calls the table holds for each key the value of
\* the set it committed last (so a write to one key leaves the entry of
\* every other key alone), a set that has committed returned Ok, and every
\* get returned Ok(None) or Ok(Some(v)) for a v some caller has passed to
\* set on that key, never another value.
C13_LastWriteWins ==
    /\ \A k \in Keys :
          /\ dash[k] = wr[k].committed
          /\ dash[k] = Absent \/ dash[k] \in wr[k].written
    /\ \A t \in Threads :
          /\ thr[t].pc = "stored" => thr[t].res = Ok(Unit)
          /\ thr[t].pc = "got" =>
                 \/ thr[t].res = Ok(None)
                 \/ \E v \in wr[thr[t].key].written : thr[t].res = Ok(Some(v))

\* Two set calls on one key with different values, both in progress at
\* once and both committed: the table holds the value committed last.
C13_Witness ==
    \E t1, t2 \in Threads :
        /\ t1 # t2
        /\ thr[t1].pc = "stored"
        /\ thr[t2].pc = "stored"
        /\ thr[t1].key = thr[t2].key
        /\ thr[t1].val # thr[t2].val
        /\ dash[thr[t1].key] = thr[t2].val
        /\ wr[thr[t1].key].committed = thr[t2].val

\* How often a call occurs among the client calls of a handler.
Count(calls, c) == Cardinality({i \in 1..Len(calls) : calls[i] = c})

\* C14 (no retries, remote backend): a call of set, set_ex, get, del or
\* contains asks for a connection exactly once and, when it got one, issues
\* exactly one command; when the connection is refused no command is issued
\* and the call returns that error; when the command fails on the way, or
\* its reply is not the nil reply and cannot be read, the call returns Err
\* and nothing is tried again.
C14_NoRetry ==
    (backend = "redis" /\ last.op # "none") =>
        /\ Count(last.calls, "get_connection") = 1
        /\ last.calls[1] = "get_connection"
        /\ Len(last.calls) = IF last.fault = "conn" THEN 1 ELSE 2
        /\ last.fault = "conn" => last.res = Err(ConnectionRefused)
        /\ last.fault \in {"io_unsent", "io_lost"} => last.res = Err(BrokenPipe)
        /\ last.fault = "malformed" => last.res = Err(TypeError("int(1)"))
        /\ last.res.tag = "Ok" => last.fault = "none"

\* A set whose command was lost before the server saw it: the call returned
\* the error and the key is still absent, so no second SET was sent.
C14_Witness ==
    /\ backend = "redis"
    /\ last.op = "set"
    /\ last.fault = "io_unsent"
    /\ last.res = Err(BrokenPipe)
    /\ last.calls = <<"get_connection", "SET">>
    /\ rdata[last.key] = Absent

\* C15 as stated (the two backends are interchangeable): after every
\* sequence of set, get, del and contains calls with no transport failure
\* and no expiry, made on a fresh DashMapStorage and on a RedisStorage over
\* an empty server, the last call returned the same result on both and both
\* hold the same key-to-value mapping.
C15_Interchangeable ==
    /\ pair.lres = pair.rres
    /\ dash = rdata

\* C15, amended: both hold the same key-to-value mapping (and the server
\* holds no expiry), and every set, get and contains and every del of a
\* present key returned the same result on both; a del of an absent key
\* returned Ok(None) on DashMapStorage and Ok(Some(k)) on RedisStorage.
C15_InterchangeableButDelAbsent ==
    /\ dash = rdata
    /\ \A k \in Keys : rttl[k] = NoTtl
    /\ (pair.op # "del" \/ pair.pre # Absent) => pair.lres = pair.rres
    /\ (pair.op = "del" /\ pair.pre = Absent) =>
           /\ pair.lres = Ok(None)
           /\ pair.rres = Ok(Some(pair.key))

\* A del of a present key made on both: both returned Ok(Some(k)) and both
\* dropped the key, the other key still held by both.
C15_Witness ==
    /\ pair.op = "del"
    /\ pair.pre # Absent
    /\ pair.lres = Ok(Some(pair.key))
    /\ pair.rres = Ok(Some(pair.key))
    /\ dash[pair.key] = Absent
    /\ rdata[pair.key] = Absent
    /\ \E k \in Keys : dash[k] # Absent /\ rdata[k] = dash[k]

\* get(k) and contains(k) made in the current state with fault f on the way
\* (the local store has no connection, so f plays no part there).
GetUnder(k, f) ==
    IF backend = "dashmap" THEN DashMapStorage_get(dash, k)
                           ELSE RedisStorage_get(Srv, k, f)

ContainsUnder(k, f) ==
    IF backend = "dashmap" THEN DashMapStorage_contains(dash, k)
                           ELSE RedisStorage_contains(Srv, k, f)

\* C16 (contains agrees with get, both backends): in every reachable state,
\* for every key and whatever happens to the connection, contains(k)
\* returns Ok(true) exactly when get(k) returns Ok(Some(_)), Ok(false)
\* exactly when get(k) returns Ok(None), and Err exactly when get(k) returns
\* Err, with the same error; so a key whose expiry has passed is absent for
\* both.
C16_ContainsAgreesWithGet ==
    \A k \in Keys, f \in ReadFaults :
        LET g == GetUnder(k, f)
            c == ContainsUnder(k, f)
        IN  /\ c = Ok(TRUE) <=> (g.tag = "Ok" /\ g.val # None)
            /\ c = Ok(FALSE) <=> g = Ok(None)
            /\ c.tag = "Err" <=> g.tag = "Err"
            /\ c.tag = "Err" => c = g

\* A contains on the remote store of a key written by set_ex and since
\* expired: it returned Ok(false), and get returns Ok(None).
C16_Witness ==
    \E k \in Keys :
        /\ backend = "redis"
        /\ hist[k].kind = "set_ex"
        /\ LastWas("contains", k)
        /\ last.res = Ok(FALSE)
        /\ ContainsNow(k) = Ok(FALSE)
        /\ GetNow(k) = Ok(None)

\* C17 (set_ex expires the entry ttl after the call, remote backend): for
\* every Duration, a whole number of seconds or not, one second or less,
\* set_ex with nothing failing on the way returns Ok, and while its write is
\* the latest of the key the server holds exactly what is left of the ttl
\* as the key's expiry, the key being gone once nothing is left.
C17_ExpiryHorizon ==
    /\ (backend = "redis" /\ last.op = "set_ex" /\ last.fault = "none") =>
           last.res = Ok(Unit)
    /\ \A k \in Keys :
          (backend = "redis" /\ hist[k].kind = "set_ex") =>
              IF hist[k].left > 0
                  THEN rdata[k] = LastWritten(k) /\ rttl[k] = hist[k].left
                  ELSE rdata[k] = Absent /\ rttl[k] = NoTtl

\* A step in which time passes and no call is made: the server has counted
\* the expiries down, the caller's record of its writes likewise, and the
\* last call is the one it was.
TimePasses ==
    /\ backend = "redis"
    /\ Server(rdata', rttl') = ServerTick(Srv)
    /\ hist' = [k \in Keys |-> HistTick(hist[k])]
    /\ dash' = dash
    /\ last'.op = last.op
    /\ last'.key = last.key
    /\ last'.fault = last.fault
    /\ last'.calls = last.calls

\* What a call, the one last' records, may change: a get or a contains
\* nothing of the mapping or the expiries, any call nothing of a key other
\* than its own.
CallFrame ==
    /\ last'.op \in {"get", "contains"} => UNCHANGED <<dash, rdata, rttl>>
    /\ \A k \in Keys :
          k # last'.key =>
              /\ dash'[k] = dash[k]
              /\ rdata'[k] = rdata[k]
              /\ rttl'[k] = rttl[k]

\* C18 (frame of each operation, both backends): every step is time
\* passing or a call; get(k) and contains(k) leave the whole key-to-value
\* mapping and every expiry as they were, and set(k, v), set_ex(k, v, ttl)
\* and del(k), whether they succeed or fail, leave the entry and the expiry
\* of every other key as they were.
C18_Frame == [][TimePasses \/ CallFrame]_vars

\* A set of one key, made while the other key held the value written to it
\* before: the other key still holds that value.
C18_Witness ==
    \E k \in Keys :
        /\ last.op = "set"
        /\ last.key # k
        /\ last.res = Ok(Unit)
        /\ Stored(last.key) # Absent
        /\ hist[k].kind \in {"set", "set_ex"}
        /\ Stored(k) = LastWritten(k)

\* What a call whose connection was refused, the one last' records, does:
\* it returns that error, issues no command and leaves the server alone.
RefusedCall ==
    last'.fault = "conn" =>
        /\ last'.res = Err(ConnectionRefused)
        /\ last'.calls = <<"get_connection">>
        /\ UNCHANGED <<rdata, rttl>>

\* C19 (a refused connection has no effect, remote backend): whenever
\* client.get_connection() fails inside set, set_ex, get, del or contains,
\* the call returns Err with that failure, no command is issued, and the
\* server's mapping and expiries are what they were before the call.
C19_RefusedConnection == [][TimePasses \/ RefusedCall]_vars

\* A del of a present key whose connection was refused: it returned the
\* error and the key is still there.
C19_Witness ==
    /\ backend = "redis"
    /\ last.op = "del"
    /\ last.fault = "conn"
    /\ last.res = Err(ConnectionRefused)
    /\ last.pre # Absent
    /\ rdata[last.key] = last.pre

\* C20 (exactly one address form reaches build): the builder holds at most
\* one address, and a build or try_build of a builder on which both addr
\* and config were called does not return a handle.
C20_ExactlyOneForm ==
    /\ Len(builder.addr) <= 1
    /\ (~builder.live /\ bout.op # "none" /\ bhist = {"addr", "config"}) =>
           bout.res # "Ok"

====
